---- MODULE Spec2Model ----
(***************************************************************************)
(* pyausec: the remote listing and file resolution engine of               *)
(* AusElectionGrabber (src/pyausec/elec_grabber.py).                       *)
(*                                                                         *)
(* Python strings are sequences of code points, so that the substring      *)
(* test, endswith, split("/") and the code-point order of list.sort() are  *)
(* computed and not assumed.  None is the empty set and a present value v  *)
(* is {v}.                                                                 *)
(***************************************************************************)
EXTENDS Integers, Sequences, FiniteSets, TLC

\* ------------------------------------------------------------------ text

\* "/" and "." as code points
Slash == 47
Dot == 46

\* "E1", "E2", "E3", "X": second path segments (election identifiers)
E1 == <<69, 49>>
E2 == <<69, 50>>
E3 == <<69, 51>>
EX == <<88>>
\* "" (the empty string)
Empty == <<>>
\* "/Detailed/Preload" and "/Standard/Light"
DetailedPreload == <<47, 68, 101, 116, 97, 105, 108, 101, 100, 47, 80, 114, 101, 108, 111, 97, 100>>
StandardLight == <<47, 83, 116, 97, 110, 100, 97, 114, 100, 47, 76, 105, 103, 104, 116>>
\* ".zip", ".txt"
DotZip == <<46, 122, 105, 112>>
DotTxt == <<46, 116, 120, 116>>
\* "p1.zip", "p2.zip", "r1.zip", "r2.zip", "r3.zip", "sub"
P1Zip == <<112, 49, 46, 122, 105, 112>>
P2Zip == <<112, 50, 46, 122, 105, 112>>
R1Zip == <<114, 49, 46, 122, 105, 112>>
R2Zip == <<114, 50, 46, 122, 105, 112>>
R3Zip == <<114, 51, 46, 122, 105, 112>>
Sub == <<115, 117, 98>>
\* "/cache": the cache_dir argument of the constructor
CacheDir == <<47, 99, 97, 99, 104, 101>>

None == {}
Some(v) == {v}
TheVal(o) == CHOOSE v \in o : TRUE

\* s.startswith(p)
StartsWith(s, p) ==
    /\ Len(p) <= Len(s)
    /\ SubSeq(s, 1, Len(p)) = p

\* s.endswith(p)
EndsWith(s, p) ==
    /\ Len(p) <= Len(s)
    /\ SubSeq(s, Len(s) - Len(p) + 1, Len(s)) = p

\* p in s (substring)
Contains(s, p) ==
    \/ p = <<>>
    \/ \E i \in 0..(Len(s) - Len(p)) :
          s[i + 1] = p[1] /\ SubSeq(s, i + 1, i + Len(p)) = p

\* s.split("/"): the segments between the separators, empty ones kept;
\* SplitFrom(s, i) splits what follows position i - 1
RECURSIVE SplitFrom(_, _)
SplitFrom(s, i) ==
    LET seps == {j \in i..Len(s) : s[j] = Slash} IN
    IF seps = {} THEN <<SubSeq(s, i, Len(s))>>
    ELSE LET next == CHOOSE j \in seps : \A k \in seps : j <= k
         IN  <<SubSeq(s, i, next - 1)>> \o SplitFrom(s, next + 1)

Split(s) == SplitFrom(s, 1)

\* a < b in the code-point order of Python's str comparison
RECURSIVE StrLess(_, _)
StrLess(a, b) ==
    IF b = <<>> THEN FALSE
    ELSE IF a = <<>> THEN TRUE
    ELSE IF a[1] # b[1] THEN a[1] < b[1]
    ELSE StrLess(Tail(a), Tail(b))

StrLeq(a, b) == a = b \/ StrLess(a, b)

\* list.sort() on a list of strings: insertion into a sorted prefix
RECURSIVE InsertSorted(_, _)
InsertSorted(x, s) ==
    IF s = <<>> THEN <<x>>
    ELSE IF StrLess(x, s[1]) THEN <<x>> \o s
    ELSE <<s[1]>> \o InsertSorted(x, Tail(s))

\* line 203 left out: the paths in the order the traversal found them
SortList_as_found(s) == s

RECURSIVE SortList(_)
SortList(s) ==
    IF s = <<>> THEN <<>>
    ELSE InsertSorted(s[1], SortList(Tail(s)))

Range(s) == {s[i] : i \in 1..Len(s)}

\* cache_dir / file_name
LocalPath(file_name) == CacheDir \o <<Slash>> \o file_name

\* path.split("/")[-1]
LastSegment(s) == LET parts == Split(s) IN parts[Len(parts)]

\* ---------------------------------------------------------- remote server

\* The files the server may publish.  The directories of a tree are the
\* proper prefixes of its files' paths.
FilePool ==
    { <<Slash>> \o E1 \o DetailedPreload \o <<Slash>> \o P1Zip,
      <<Slash>> \o E1 \o DetailedPreload \o <<Slash>> \o P2Zip,
      <<Slash>> \o E1 \o StandardLight \o <<Slash>> \o R1Zip,
      <<Slash>> \o E1 \o StandardLight \o <<Slash>> \o R2Zip,
      <<Slash>> \o E1 \o StandardLight \o <<Slash>> \o Sub \o <<Slash>> \o R3Zip,
      <<Slash>> \o E2 \o StandardLight \o <<Slash>> \o R1Zip,
      <<Slash>> \o EX \o <<Slash>> \o E1 \o StandardLight \o <<Slash>> \o R3Zip }

\* path is a directory of the tree whose files are R ("" is the root)
IsDir(R, path) == \E f \in R : StartsWith(f, path \o <<Slash>>)

\* the first segment of a relative path
RECURSIVE FirstSegment(_)
FirstSegment(s) ==
    IF s = <<>> \/ s[1] = Slash THEN <<>>
    ELSE <<s[1]>> \o FirstSegment(Tail(s))

\* ftp.nlst() after ftp.cwd(path): the names of the entries of path
Nlst(R, path) ==
    { FirstSegment(SubSeq(f, Len(path) + 2, Len(f))) :
        f \in {g \in R : StartsWith(g, path \o <<Slash>>)} }

\* a set of names as the list ftp.nlst() returns: the server chooses the
\* order, which need not be the sorted one; here the greatest name comes
\* first (line 203 sorts the whole listing afterwards)
RECURSIVE SetToList(_)
SetToList(S) ==
    IF S = {} THEN <<>>
    ELSE LET x == CHOOSE y \in S : \A z \in S : StrLeq(z, y)
         IN  <<x>> \o SetToList(S \ {x})

\* _recurse_get_paths(path): the entries below path, depth first; not ok
\* when ftp.cwd reaches an entry that is not a directory
RECURSIVE recurse_get_paths(_, _)
RECURSIVE recurse_directories(_, _, _)
recurse_get_paths(R, path) ==
    IF path # <<>> /\ ~IsDir(R, path)
    THEN [ok |-> FALSE, found |-> <<>>]
    ELSE recurse_directories(R, path, SetToList(Nlst(R, path)))

recurse_directories(R, path, directories) ==
    IF directories = <<>> THEN [ok |-> TRUE, found |-> <<>>]
    ELSE LET directory == directories[1]
             full_path == path \o <<Slash>> \o directory
             below == IF Dot \notin Range(directory)
                      THEN recurse_get_paths(R, full_path)
                      ELSE [ok |-> TRUE, found |-> <<>>]
             rest == recurse_directories(R, path, Tail(directories))
         IN  [ok |-> below.ok /\ rest.ok,
              found |-> <<full_path>> \o below.found \o rest.found]

\* ------------------------------------------------------ election resolver

\* [file.split("/")[1] for file in self.ftp_listing], as a set
ElectionSet(listing) == { Split(listing[i])[2] : i \in 1..Len(listing) }

\* Python truthiness of a str | None
Truthy(override) == override # None /\ override # Some(Empty)

\* get_election without the membership check of line 63
get_election_unvalidated(listing, override) ==
    LET election_list_scratch_set == ElectionSet(listing) IN
    IF Cardinality(election_list_scratch_set) = 0
    THEN [ok |-> FALSE, err |-> "NoElection", val |-> Empty]
    ELSE IF ~Truthy(override) /\ Cardinality(election_list_scratch_set) > 1
    THEN [ok |-> FALSE, err |-> "Ambiguous", val |-> Empty]
    ELSE IF Truthy(override)
    THEN [ok |-> TRUE, err |-> "", val |-> TheVal(override)]
    ELSE [ok |-> TRUE, err |-> "",
          val |-> CHOOSE e \in election_list_scratch_set : TRUE]

\* get_election with line 59 testing only the number of elections
get_election_ambiguity_first(listing, override) ==
    LET election_list_scratch_set == ElectionSet(listing) IN
    IF Cardinality(election_list_scratch_set) = 0
    THEN [ok |-> FALSE, err |-> "NoElection", val |-> Empty]
    ELSE IF Cardinality(election_list_scratch_set) > 1
    THEN [ok |-> FALSE, err |-> "Ambiguous", val |-> Empty]
    ELSE IF Truthy(override)
    THEN IF TheVal(override) \notin election_list_scratch_set
         THEN [ok |-> FALSE, err |-> "OverrideNotFound", val |-> Empty]
         ELSE [ok |-> TRUE, err |-> "", val |-> TheVal(override)]
    ELSE [ok |-> TRUE, err |-> "",
          val |-> CHOOSE e \in election_list_scratch_set : TRUE]

\* get_election without the check of lines 59-61
get_election_first_found(listing, override) ==
    LET election_list_scratch_set == ElectionSet(listing) IN
    IF Cardinality(election_list_scratch_set) = 0
    THEN [ok |-> FALSE, err |-> "NoElection", val |-> Empty]
    ELSE IF Truthy(override)
    THEN IF TheVal(override) \notin election_list_scratch_set
         THEN [ok |-> FALSE, err |-> "OverrideNotFound", val |-> Empty]
         ELSE [ok |-> TRUE, err |-> "", val |-> TheVal(override)]
    ELSE [ok |-> TRUE, err |-> "",
          val |-> CHOOSE e \in election_list_scratch_set : TRUE]

\* get_election returning an element of the set where line 67 returns the
\* override
get_election_ignores_override(listing, override) ==
    LET election_list_scratch_set == ElectionSet(listing) IN
    IF Cardinality(election_list_scratch_set) = 0
    THEN [ok |-> FALSE, err |-> "NoElection", val |-> Empty]
    ELSE IF ~Truthy(override) /\ Cardinality(election_list_scratch_set) > 1
    THEN [ok |-> FALSE, err |-> "Ambiguous", val |-> Empty]
    ELSE IF Truthy(override) /\ TheVal(override) \notin election_list_scratch_set
    THEN [ok |-> FALSE, err |-> "OverrideNotFound", val |-> Empty]
    ELSE [ok |-> TRUE, err |-> "",
          val |-> CHOOSE e \in election_list_scratch_set : TRUE]

\* get_election(override): the value returned or the ValueError raised
get_election(listing, override) ==
    LET election_list_scratch_set == ElectionSet(listing) IN
    IF Cardinality(election_list_scratch_set) = 0
    THEN [ok |-> FALSE, err |-> "NoElection", val |-> Empty]
    ELSE IF ~Truthy(override) /\ Cardinality(election_list_scratch_set) > 1
    THEN [ok |-> FALSE, err |-> "Ambiguous", val |-> Empty]
    ELSE IF Truthy(override)
    THEN IF TheVal(override) \notin election_list_scratch_set
         THEN [ok |-> FALSE, err |-> "OverrideNotFound", val |-> Empty]
         ELSE [ok |-> TRUE, err |-> "", val |-> TheVal(override)]
    ELSE [ok |-> TRUE, err |-> "",
          val |-> CHOOSE e \in election_list_scratch_set : TRUE]

\* ---------------------------------------------------- latest-file selector

\* the comprehension of line 78 without the test of the extension
RECURSIVE Shortlist_any_suffix(_, _, _)
Shortlist_any_suffix(listing, path, file_extension) ==
    IF listing = <<>> THEN <<>>
    ELSE IF Contains(listing[1], path)
    THEN <<listing[1]>> \o Shortlist_any_suffix(Tail(listing), path, file_extension)
    ELSE Shortlist_any_suffix(Tail(listing), path, file_extension)

\* [file for file in self.ftp_listing
\*  if path in file and file.endswith(file_extension)]
RECURSIVE Shortlist(_, _, _)
Shortlist(listing, path, file_extension) ==
    IF listing = <<>> THEN <<>>
    ELSE IF Contains(listing[1], path) /\ EndsWith(listing[1], file_extension)
    THEN <<listing[1]>> \o Shortlist(Tail(listing), path, file_extension)
    ELSE Shortlist(Tail(listing), path, file_extension)

\* the selection taking file_shortlist[0] where line 89 takes [-1]
SelectLatest_first(listing, path, file_role, file_extension) ==
    LET file_shortlist == Shortlist(listing, path, file_extension) IN
    IF Len(file_shortlist) = 0
    THEN [ok |-> FALSE, name |-> Empty, warned |-> FALSE]
    ELSE LET sorted == SortList(file_shortlist)
             preload_file_full_path == sorted[1]
         IN  [ok |-> TRUE,
              name |-> LastSegment(preload_file_full_path),
              warned |-> Len(file_shortlist) > 1 /\ file_role = "preload"]

\* the selection taking file_shortlist[-2], when there is one, where line 89
\* takes [-1]
SelectLatest_previous(listing, path, file_role, file_extension) ==
    LET file_shortlist == Shortlist(listing, path, file_extension) IN
    IF Len(file_shortlist) = 0
    THEN [ok |-> FALSE, name |-> Empty, warned |-> FALSE]
    ELSE LET sorted == SortList(file_shortlist)
             preload_file_full_path ==
                 IF Len(sorted) > 1 THEN sorted[Len(sorted) - 1] ELSE sorted[1]
         IN  [ok |-> TRUE,
              name |-> LastSegment(preload_file_full_path),
              warned |-> Len(file_shortlist) > 1 /\ file_role = "preload"]

\* lines 78-90 of _get_latest_ftp_file_from_path: the file name selected,
\* or the "No preload files found" ValueError, and whether the warning of
\* line 85 is logged
SelectLatest(listing, path, file_role, file_extension) ==
    LET file_shortlist == Shortlist(listing, path, file_extension) IN
    IF Len(file_shortlist) = 0
    THEN [ok |-> FALSE, name |-> Empty, warned |-> FALSE]
    ELSE LET sorted == SortList(file_shortlist)
             preload_file_full_path == sorted[Len(sorted)]
         IN  [ok |-> TRUE,
              name |-> LastSegment(preload_file_full_path),
              warned |-> Len(file_shortlist) > 1 /\ file_role = "preload"]

\* ------------------------------------------------------------ archives

\* "xml/eml-110-event-{e}.xml", "xml/eml-230-candidates-{e}.xml" and
\* "xml/aec-mediafeed-results-standard-light-{e}.xml"
DotXml == <<46, 120, 109, 108>>
EventDoc(e) ==
    <<120, 109, 108, 47, 101, 109, 108, 45, 49, 49, 48, 45, 101, 118, 101, 110, 116, 45>>
        \o e \o DotXml
CandidatesDoc(e) ==
    <<120, 109, 108, 47, 101, 109, 108, 45, 50, 51, 48, 45, 99, 97, 110, 100, 105, 100, 97,
      116, 101, 115, 45>> \o e \o DotXml
ResultsDoc(e) ==
    <<120, 109, 108, 47, 97, 101, 99, 45, 109, 101, 100, 105, 97, 102, 101, 101, 100, 45,
      114, 101, 115, 117, 108, 116, 115, 45, 115, 116, 97, 110, 100, 97, 114, 100, 45, 108,
      105, 103, 104, 116, 45>> \o e \o DotXml

Elections == {E1, E2, EX}

\* The members of the archive the server publishes at the path src: a
\* preload bundle of election e holds e's event and candidates documents
\* (p1.zip is published without the candidates document), a results bundle
\* holds e's results document.
ZipMembers(src) ==
    UNION { (IF StartsWith(src, <<Slash>> \o e \o DetailedPreload \o <<Slash>>)
             THEN {EventDoc(e)} ELSE {})
            \cup
            (IF StartsWith(src, <<Slash>> \o e \o DetailedPreload \o <<Slash>> \o P2Zip)
             THEN {CandidatesDoc(e)} ELSE {})
            \cup
            (IF StartsWith(src, <<Slash>> \o e \o StandardLight \o <<Slash>>)
             THEN {ResultsDoc(e)} ELSE {}) : e \in Elections }

\* ------------------------------------------------------------------ state

VARIABLES
    remote,            \* the files on the FTP server (full paths)
    cache_dir_exists,  \* the cache directory has been created
    cache_files,       \* the files in the cache directory: [name, src, complete]
    current_election,  \* the constructor's argument
    pc,                \* where the session is in __init__, "ready" after it
    ftp_listing,       \* self.ftp_listing
    election_root,     \* self.election_root
    tracked_files,     \* self.tracked_files: role -> local path, None if absent
    last,              \* the last call: its arguments and what it did
    runs               \* the runs of __init__ followed statement by statement

vars == <<remote, cache_dir_exists, cache_files, current_election, pc,
          ftp_listing, election_root, tracked_files, last, runs>>

\* the largest number of files on the server
MaxFiles == 3

Roles == {"preload", "results"}

\* the overrides a caller passes: None, "", and identifiers
Overrides == {None, Some(Empty), Some(E1), Some(E2), Some(E3)}

\* the directory paths and the suffixes a caller passes to the selector
PathArgs ==
    { <<Slash>> \o E1 \o DetailedPreload,
      <<Slash>> \o E1 \o StandardLight,
      <<Slash>> \o E2 \o StandardLight }
ExtArgs == {DotZip, DotTxt}

\* the points at which the server or the network can make a download fail
Failures == {"none", "login", "cwd", "retr"}

CachedNames(files) == {c.name : c \in files}

NoCall ==
    [op |-> "none", path |-> Empty, role |-> "", ext |-> Empty, name |-> Empty,
     out |-> "ok", conn |-> 0, retr |-> 0, ret |-> None, had |-> FALSE,
     prior |-> None, warned |-> FALSE, override |-> None, fault |-> "none"]

NoTracked == [r \in Roles |-> None]

\* no run is followed statement by statement
NoRuns == <<>>

\* the file names a caller passes to download_file: those of the server's files
NameArgs == {LastSegment(f) : f \in remote}

\* ------------------------------------------------------- download cache

\* download_file without the test of line 156
download_file_always_fetches(files, R, file_dir, file_name, fail) ==
    LET src == file_dir \o <<Slash>> \o file_name
        others == {c \in files : c.name # file_name}
    IN
    IF fail = "login"
    THEN [files |-> files, out |-> "login", conn |-> 1, retr |-> 0]
    ELSE IF fail = "cwd" \/ ~IsDir(R, file_dir)
    THEN [files |-> files, out |-> "cwd", conn |-> 1, retr |-> 0]
    ELSE IF fail = "retr" \/ src \notin R
    THEN [files |-> others \cup {[name |-> file_name, src |-> Empty, complete |-> FALSE]},
          out |-> "retr", conn |-> 1, retr |-> 1]
    ELSE [files |-> others \cup {[name |-> file_name, src |-> src, complete |-> TRUE]},
          out |-> "ok", conn |-> 1, retr |-> 1]

\* lines 156-164 of download_file: the cache directory afterwards, how the
\* call ends, and the connections opened and transfer requests issued.
\* fail is the point where the server or the network fails, if it does.
download_file(files, R, file_dir, file_name, fail) ==
    LET src == file_dir \o <<Slash>> \o file_name IN
    IF file_name \in CachedNames(files)
    THEN [files |-> files, out |-> "ok", conn |-> 0, retr |-> 0]
    ELSE IF fail = "login"
    THEN [files |-> files, out |-> "login", conn |-> 1, retr |-> 0]
    ELSE IF fail = "cwd" \/ ~IsDir(R, file_dir)
    THEN [files |-> files, out |-> "cwd", conn |-> 1, retr |-> 0]
    ELSE IF fail = "retr" \/ src \notin R
    THEN [files |-> files \cup {[name |-> file_name, src |-> Empty, complete |-> FALSE]},
          out |-> "retr", conn |-> 1, retr |-> 1]
    ELSE [files |-> files \cup {[name |-> file_name, src |-> src, complete |-> TRUE]},
          out |-> "ok", conn |-> 1, retr |-> 1]

\* line 166 as self.tracked_files = {file_role: output_file}
track_replaces_mapping(tracked, file_role, output_file) ==
    [r \in DOMAIN tracked |-> IF r = file_role THEN Some(output_file) ELSE None]

\* self.tracked_files[file_role] = output_file
track(tracked, file_role, output_file) ==
    [tracked EXCEPT ![file_role] = Some(output_file)]

\* download_file with line 166 in a finally clause: the mapping is recorded
\* also when the transfer raises
DownloadCall_records_on_failure(file_dir, file_name, file_role, fail) ==
    LET dl == download_file(cache_files, remote, file_dir, file_name, fail)
    IN  [files |-> dl.files,
         tracked |-> track(tracked_files, file_role, LocalPath(file_name)),
         mk |-> TRUE,
         call |-> [NoCall EXCEPT !.op = "download_file",
                                 !.path = file_dir,
                                 !.role = file_role,
                                 !.name = file_name,
                                 !.out = dl.out,
                                 !.conn = dl.conn,
                                 !.retr = dl.retr,
                                 !.had = file_name \in CachedNames(cache_files),
                                 !.prior = tracked_files[file_role]]]

\* download_file(file_dir, file_name, file_role) as a whole: the state it
\* leaves and the record of the call
DownloadCall(file_dir, file_name, file_role, fail) ==
    LET dl == download_file(cache_files, remote, file_dir, file_name, fail)
        tracked == IF dl.out = "ok"
                   THEN track(tracked_files, file_role, LocalPath(file_name))
                   ELSE tracked_files
    IN  [files |-> dl.files,
         tracked |-> tracked,
         mk |-> TRUE,
         call |-> [NoCall EXCEPT !.op = "download_file",
                                 !.path = file_dir,
                                 !.role = file_role,
                                 !.name = file_name,
                                 !.out = dl.out,
                                 !.conn = dl.conn,
                                 !.retr = dl.retr,
                                 !.had = file_name \in CachedNames(cache_files),
                                 !.prior = tracked_files[file_role]]]

\* the entries of the listing whose file is not yet in the cache directory
RECURSIVE NotCached(_)
NotCached(listing) ==
    IF listing = <<>> THEN <<>>
    ELSE IF LastSegment(listing[1]) \in CachedNames(cache_files)
    THEN NotCached(Tail(listing))
    ELSE <<listing[1]>> \o NotCached(Tail(listing))

\* the selector choosing among the files not yet downloaded, when there
\* are any
LatestCall_prefers_new(sel, path, file_role, file_extension, fail) ==
    LET fresh == SelectLatest(NotCached(ftp_listing), path, file_role, file_extension)
        pick == IF fresh.ok THEN fresh ELSE sel
        dl == DownloadCall(path, pick.name, file_role, fail)
    IN  IF ~pick.ok
        THEN [files |-> cache_files,
              tracked |-> tracked_files,
              mk |-> cache_dir_exists,
              call |-> [NoCall EXCEPT !.op = "get_latest",
                                      !.path = path,
                                      !.role = file_role,
                                      !.ext = file_extension,
                                      !.out = "NoMatch",
                                      !.prior = tracked_files[file_role]]]
        ELSE [dl EXCEPT !.call = [dl.call EXCEPT
                                      !.op = "get_latest",
                                      !.ext = file_extension,
                                      !.warned = pick.warned,
                                      !.ret = IF dl.call.out = "ok"
                                              THEN dl.tracked[file_role]
                                              ELSE None]]

\* _get_latest_ftp_file_from_path(path, file_role, file_extension) after
\* the selection sel of lines 78-90: the ValueError of line 82, or the
\* download of the selected name (line 92) and the value returned (line 93)
LatestCall(sel, path, file_role, file_extension, fail) ==
    LET dl == DownloadCall(path, sel.name, file_role, fail)
    IN  IF ~sel.ok
        THEN [files |-> cache_files,
              tracked |-> tracked_files,
              mk |-> cache_dir_exists,
              call |-> [NoCall EXCEPT !.op = "get_latest",
                                      !.path = path,
                                      !.role = file_role,
                                      !.ext = file_extension,
                                      !.out = "NoMatch",
                                      !.prior = tracked_files[file_role]]]
        ELSE [dl EXCEPT !.call = [dl.call EXCEPT
                                      !.op = "get_latest",
                                      !.ext = file_extension,
                                      !.warned = sel.warned,
                                      !.ret = IF dl.call.out = "ok"
                                              THEN dl.tracked[file_role]
                                              ELSE None]]

\* ----------------------------------------------------- archive extractor

\* _get_file_as_str_from_zip(zip_file_path, file_in_zip_path_str): how the
\* call ends.  A file that is not a complete copy is not a zip archive.
get_file_as_str_from_zip(files, zip_file_path, file_in_zip_path_str) ==
    LET here == {c \in files : LocalPath(c.name) = zip_file_path} IN
    IF here = {} THEN "FileNotFound"
    ELSE LET zip_file == CHOOSE c \in here : TRUE IN
         IF ~zip_file.complete THEN "BadZipFile"
         ELSE IF file_in_zip_path_str \notin ZipMembers(zip_file.src) THEN "KeyError"
         ELSE "ok"

\* a call of the selector followed by the extraction of one member from
\* the file it returns
LatestThenExtract(sel, path, file_role, member, fail) ==
    LET r == LatestCall(sel, path, file_role, DotZip, fail) IN
    IF r.call.out # "ok" THEN r
    ELSE [r EXCEPT !.call.out =
              get_file_as_str_from_zip(r.files, TheVal(r.call.ret), member)]

\* ---------------------------------------------------------------- actions

Init ==
    /\ remote \in {R \in SUBSET FilePool : Cardinality(R) <= MaxFiles}
    /\ cache_dir_exists = FALSE
    /\ cache_files = {}
    /\ current_election \in Overrides
    /\ pc = "new"
    /\ ftp_listing = <<>>
    /\ election_root = None
    /\ tracked_files = NoTracked
    /\ last = NoCall
    /\ runs = NoRuns

\* __init__ going on to the next step also after a step that raised
After_continues(step, out) ==
    IF pc = "ready" THEN "ready" ELSE step

\* where __init__ goes after a step that ended with out
After(step, out) ==
    IF pc = "ready" THEN "ready"
    ELSE IF out # "ok" THEN "failed"
    ELSE step

\* the state a selector or download call r leaves, the call named op
Leave(r, op, step) ==
    /\ \E done \in {r} :
          /\ cache_files' = done.files
          /\ tracked_files' = done.tracked
          /\ cache_dir_exists' = done.mk
          /\ last' = [done.call EXCEPT !.op = op]
          /\ pc' = After(step, done.call.out)
    /\ UNCHANGED <<remote, current_election, ftp_listing, election_root, runs>>

\* the points at which a call that selected sel can fail: the server is
\* contacted only when a file was selected and is not in the cache directory
FailuresAfter(sel) ==
    IF sel.ok /\ sel.name \notin CachedNames(cache_files) THEN Failures ELSE {"none"}

PreloadPath == <<Slash>> \o TheVal(election_root) \o DetailedPreload
ResultsPath == <<Slash>> \o TheVal(election_root) \o StandardLight

\* how refresh_ftp_file_list ends once _recurse_get_paths("") gave walk and
\* line 203 sorted it to paths, the server failing at fail if it does
RefreshOutcome(walk, paths, fail) ==
    IF fail = "login" THEN "login"
    ELSE IF fail = "cwd" \/ ~walk.ok THEN "cwd"
    ELSE IF Len(paths) = 0 THEN "EmptyListing"
    ELSE "ok"

\* refresh_ftp_file_list(): line 31 of __init__, or a call on the object
RefreshFtpFileList ==
    /\ pc \in {"new", "ready"}
    /\ \E walk \in {recurse_get_paths(remote, Empty)} :
       \E paths \in {SortList(walk.found)} :
       \E fail \in {"none", "login", "cwd"} :
       \E out \in {RefreshOutcome(walk, paths, fail)} :
          /\ ftp_listing' = IF out = "ok" THEN paths ELSE ftp_listing
          /\ last' = [NoCall EXCEPT !.op = "refresh_ftp_file_list",
                                    !.out = out, !.conn = 1, !.fault = fail]
          /\ pc' = After("listed", out)
    /\ UNCHANGED <<remote, cache_dir_exists, cache_files, current_election,
                   election_root, tracked_files, runs>>

\* lines 33-35 of __init__: self.election_root = self.get_election(...); the
\* argument current_election is not kept by the object
ResolveElection ==
    /\ pc = "listed"
    /\ LET r == get_election(ftp_listing, current_election)
       IN  /\ election_root' = IF r.ok THEN Some(r.val) ELSE None
           /\ last' = [NoCall EXCEPT !.op = "get_election",
                                     !.override = current_election,
                                     !.out = IF r.ok THEN "ok" ELSE r.err,
                                     !.ret = IF r.ok THEN Some(r.val) ELSE None]
           /\ pc' = After("resolved", IF r.ok THEN "ok" ELSE r.err)
    /\ tracked_files' = NoTracked
    /\ current_election' = None
    /\ UNCHANGED <<remote, cache_dir_exists, cache_files, ftp_listing, runs>>

\* get_election(override) called on the object
GetElection(override) ==
    /\ pc = "ready"
    /\ LET r == get_election(ftp_listing, override)
       IN  last' = [NoCall EXCEPT !.op = "get_election",
                                  !.override = override,
                                  !.out = IF r.ok THEN "ok" ELSE r.err,
                                  !.ret = IF r.ok THEN Some(r.val) ELSE None]
    /\ UNCHANGED <<remote, cache_dir_exists, cache_files, current_election, pc,
                   ftp_listing, election_root, tracked_files, runs>>

\* populate_election(): line 39 of __init__, or a call on the object
PopulateElection ==
    /\ pc \in {"resolved", "ready"}
    /\ \E sel \in {SelectLatest(ftp_listing, PreloadPath, "preload", DotZip)} :
       \E fail \in FailuresAfter(sel) :
          Leave(LatestThenExtract(sel, PreloadPath, "preload",
                                  EventDoc(TheVal(election_root)), fail),
                "populate_election", "election")

\* populate_candidates(): line 40 of __init__, or a call on the object
PopulateCandidates ==
    /\ pc \in {"election", "ready"}
    /\ \E sel \in {SelectLatest(ftp_listing, PreloadPath, "preload", DotZip)} :
       \E fail \in FailuresAfter(sel) :
          Leave(LatestThenExtract(sel, PreloadPath, "preload",
                                  CandidatesDoc(TheVal(election_root)), fail),
                "populate_candidates", "candidates")

\* get_latest_results(): line 41 of __init__, or a call on the object
GetLatestResults ==
    /\ pc \in {"candidates", "ready"}
    /\ \E sel \in {SelectLatest(ftp_listing, ResultsPath, "results", DotZip)} :
       \E fail \in FailuresAfter(sel) :
          Leave(LatestThenExtract(sel, ResultsPath, "results",
                                  ResultsDoc(TheVal(election_root)), fail),
                "get_latest_results", "ready")

\* get_preload() called on the object
GetPreload ==
    /\ pc = "ready"
    /\ \E sel \in {SelectLatest(ftp_listing, PreloadPath, "preload", DotZip)} :
       \E fail \in FailuresAfter(sel) :
          Leave(LatestCall(sel, PreloadPath, "preload", DotZip, fail),
                "get_preload", "ready")

\* _get_latest_ftp_file_from_path(path, file_role, file_extension)
GetLatestFtpFileFromPath(path, file_role, file_extension) ==
    /\ pc = "ready"
    /\ \E sel \in {SelectLatest(ftp_listing, path, file_role, file_extension)} :
       \E fail \in FailuresAfter(sel) :
          Leave(LatestCall(sel, path, file_role, file_extension, fail),
                "get_latest", "ready")

\* download_file(file_dir, file_name, file_role) called on the object
DownloadFile(file_dir, file_name, file_role) ==
    /\ pc = "ready"
    /\ \E fail \in FailuresAfter([ok |-> TRUE, name |-> file_name]) :
          Leave(DownloadCall(file_dir, file_name, file_role, fail),
                "download_file", "ready")

\* the process ends (or __init__ raised) and a later run constructs a new
\* AusElectionGrabber on the same cache directory
NewSession(override) ==
    /\ pc \in {"ready", "failed"}
    /\ pc' = "new"
    /\ current_election' = override
    /\ ftp_listing' = <<>>
    /\ election_root' = None
    /\ tracked_files' = NoTracked
    /\ last' = NoCall
    /\ UNCHANGED <<remote, cache_dir_exists, cache_files, runs>>

Next ==
    \/ RefreshFtpFileList
    \/ ResolveElection
    \/ \E override \in Overrides : GetElection(override)
    \/ PopulateElection
    \/ PopulateCandidates
    \/ GetLatestResults
    \/ GetPreload
    \/ \E path \in PathArgs, file_role \in Roles, file_extension \in ExtArgs :
          GetLatestFtpFileFromPath(path, file_role, file_extension)
    \/ \E file_dir \in PathArgs, file_name \in NameArgs, file_role \in Roles :
          DownloadFile(file_dir, file_name, file_role)
    \/ \E override \in Overrides : NewSession(override)

Spec == Init /\ [][Next]_vars

\* ------------------------------------------------- the lister on any tree

\* "v.1" (a directory whose name has a ".") and "notes" (a file whose name
\* has none)
V1 == <<118, 46, 49>>
Notes == <<110, 111, 116, 101, 115>>

\* The files of the trees refresh_ftp_file_list is run on: those of
\* FilePool, a file below a directory whose name has a "." and a file whose
\* name has none.
TreePool ==
    FilePool \cup
    { <<Slash>> \o E1 \o StandardLight \o <<Slash>> \o V1 \o <<Slash>> \o R1Zip,
      <<Slash>> \o E1 \o <<Slash>> \o Notes }

InitLister ==
    /\ remote \in {R \in SUBSET TreePool : Cardinality(R) <= MaxFiles}
    /\ cache_dir_exists = FALSE
    /\ cache_files = {}
    /\ current_election = None
    /\ pc = "new"
    /\ ftp_listing = <<>>
    /\ election_root = None
    /\ tracked_files = NoTracked
    /\ last = NoCall
    /\ runs = NoRuns

\* line 31 of __init__ on each tree, and a later run when it raised
NextLister ==
    \/ RefreshFtpFileList
    \/ NewSession(None)

SpecLister == InitLister /\ [][NextLister]_vars

\* --------------------------------------- __init__, statement by statement

\* A run of __init__ followed statement by statement, with the connections,
\* file handles and archive handles it holds (open, innermost last).  Several
\* such runs are processes that share the server and the cache directory.
NewRun ==
    [step |-> "list", at |-> "start", ftp_listing |-> <<>>, election_root |-> None,
     tracked_files |-> NoTracked, name |-> Empty, open |-> <<>>,
     skipped |-> FALSE, out |-> "ok"]

\* leaving every enclosing with block but the connection's
RECURSIVE ExitWith_keeps_connection(_)
ExitWith_keeps_connection(open) ==
    IF open = <<>> THEN <<>>
    ELSE IF open[Len(open)] = "ftp"
    THEN ExitWith_keeps_connection(SubSeq(open, 1, Len(open) - 1)) \o <<"ftp">>
    ELSE ExitWith_keeps_connection(SubSeq(open, 1, Len(open) - 1))

\* leaving the enclosing with blocks (lines 144, 159, 163, 175), by their
\* end or by an exception: each closes what it holds, the innermost first
RECURSIVE ExitWith(_)
ExitWith(open) ==
    IF open = <<>> THEN <<>>
    ELSE ExitWith(SubSeq(open, 1, Len(open) - 1))

\* the exception err leaves the with blocks of the run r and ends __init__
Raised(r, err) ==
    [r EXCEPT !.step = "failed", !.at = "end", !.out = err, !.open = ExitWith(@)]

\* output_file.exists() finding only files whose transfer has ended
exists_and_complete(files, file_name) ==
    \E c \in files : c.name = file_name /\ c.complete

\* output_file.exists() (line 156)
exists(files, file_name) == file_name \in CachedNames(files)

\* the arguments of the selector and of the extraction in the steps
\* populate_election, populate_candidates and get_latest_results
FetchPath(r) ==
    <<Slash>> \o TheVal(r.election_root) \o
        (IF r.step = "results" THEN StandardLight ELSE DetailedPreload)
FetchRole(r) == IF r.step = "results" THEN "results" ELSE "preload"
FetchMember(r) ==
    IF r.step = "election" THEN EventDoc(TheVal(r.election_root))
    ELSE IF r.step = "candidates" THEN CandidatesDoc(TheVal(r.election_root))
    ELSE ResultsDoc(TheVal(r.election_root))
FetchSteps == {"election", "candidates", "results"}
StepAfter(step) ==
    IF step = "election" THEN "candidates"
    ELSE IF step = "candidates" THEN "results"
    ELSE "done"

\* the run a becomes r; the session followed call by call stays as it is
Becomes(a, r) ==
    /\ runs' = [runs EXCEPT ![a] = r]
    /\ UNCHANGED <<remote, current_election, pc, ftp_listing, election_root,
                   tracked_files, last>>

\* the runs other than a that are writing the file file_name
Writers(a, file_name) ==
    {b \in DOMAIN runs \ {a} : runs[b].at = "retr" /\ runs[b].name = file_name}

\* line 175: FTP(FTP_URL) connects
RunListOpen(a) ==
    /\ runs[a].step = "list" /\ runs[a].at = "start"
    /\ \E fail \in {"none", "connect"} :
          Becomes(a, IF fail = "connect" THEN Raised(runs[a], "connect")
                     ELSE [runs[a] EXCEPT !.at = "login", !.open = @ \o <<"ftp">>])
    /\ UNCHANGED <<cache_dir_exists, cache_files>>

\* line 176: ftp.login()
RunListLogin(a) ==
    /\ runs[a].step = "list" /\ runs[a].at = "login"
    /\ \E fail \in {"none", "login"} :
          Becomes(a, IF fail = "login" THEN Raised(runs[a], "login")
                     ELSE [runs[a] EXCEPT !.at = "walk"])
    /\ UNCHANGED <<cache_dir_exists, cache_files>>

\* lines 202-209: the traversal, the sort, the test for an empty listing,
\* the assignment, and the end of the with block
RunListWalk(a) ==
    /\ runs[a].step = "list" /\ runs[a].at = "walk"
    /\ \E walk \in {recurse_get_paths(remote, Empty)} :
       \E paths \in {SortList(walk.found)} :
       \E fail \in {"none", "cwd"} :
       \E out \in {RefreshOutcome(walk, paths, fail)} :
          Becomes(a, IF out # "ok" THEN Raised(runs[a], out)
                     ELSE [runs[a] EXCEPT !.step = "resolve", !.at = "call",
                                          !.ftp_listing = paths,
                                          !.open = ExitWith(@)])
    /\ UNCHANGED <<cache_dir_exists, cache_files>>

\* lines 33-35: get_election(None) and the empty mapping
RunResolve(a) ==
    /\ runs[a].step = "resolve"
    /\ \E r \in {get_election(runs[a].ftp_listing, None)} :
          Becomes(a, IF ~r.ok THEN Raised(runs[a], r.err)
                     ELSE [runs[a] EXCEPT !.step = "election", !.at = "select",
                                          !.election_root = Some(r.val),
                                          !.tracked_files = NoTracked])
    /\ UNCHANGED <<cache_dir_exists, cache_files>>

\* lines 78-92 and 153-157: the selection, the cache directory, the test
\* for the file, and, when the file is there, lines 157, 166 and 93
RunSelect(a) ==
    /\ runs[a].step \in FetchSteps /\ runs[a].at = "select"
    /\ \E sel \in {SelectLatest(runs[a].ftp_listing, FetchPath(runs[a]),
                                 FetchRole(runs[a]), DotZip)} :
          IF ~sel.ok
          THEN /\ Becomes(a, Raised(runs[a], "NoMatch"))
               /\ UNCHANGED cache_dir_exists
          ELSE /\ cache_dir_exists' = TRUE
               /\ IF exists(cache_files, sel.name)
                  THEN Becomes(a, [runs[a] EXCEPT
                           !.at = "zip", !.name = sel.name, !.skipped = TRUE,
                           !.tracked_files =
                               track(@, FetchRole(runs[a]), LocalPath(sel.name))])
                  ELSE Becomes(a, [runs[a] EXCEPT
                           !.at = "connect", !.name = sel.name, !.skipped = FALSE])
    /\ UNCHANGED cache_files

\* line 159: FTP(FTP_URL) connects
RunConnect(a) ==
    /\ runs[a].step \in FetchSteps /\ runs[a].at = "connect"
    /\ \E fail \in {"none", "connect"} :
          Becomes(a, IF fail = "connect" THEN Raised(runs[a], "connect")
                     ELSE [runs[a] EXCEPT !.at = "login", !.open = @ \o <<"ftp">>])
    /\ UNCHANGED <<cache_dir_exists, cache_files>>

\* lines 160-161: ftp.login() and ftp.cwd(file_dir)
RunLogin(a) ==
    /\ runs[a].step \in FetchSteps /\ runs[a].at = "login"
    /\ \E fail \in {"none", "login", "cwd"} :
          Becomes(a, IF fail = "login" THEN Raised(runs[a], "login")
                     ELSE IF fail = "cwd" \/ ~IsDir(remote, FetchPath(runs[a]))
                     THEN Raised(runs[a], "cwd")
                     ELSE [runs[a] EXCEPT !.at = "open"])
    /\ UNCHANGED <<cache_dir_exists, cache_files>>

\* line 163: output_file.open("wb") creates the file, or empties the one
\* another run has written since line 156
RunOpen(a) ==
    /\ runs[a].step \in FetchSteps /\ runs[a].at = "open"
    /\ cache_files' = {c \in cache_files : c.name # runs[a].name}
                         \cup {[name |-> runs[a].name, src |-> Empty, complete |-> FALSE]}
    /\ Becomes(a, [runs[a] EXCEPT !.at = "retr", !.open = @ \o <<"local_file">>])
    /\ UNCHANGED cache_dir_exists

\* lines 164-166 and 93: the transfer, the end of the two with blocks, and
\* the mapping.  While another run writes the same file, what the file
\* holds when this transfer ends is either.
RunRetr(a) ==
    /\ runs[a].step \in FetchSteps /\ runs[a].at = "retr"
    /\ \E fail \in {"none", "retr"} :
       \E src \in {FetchPath(runs[a]) \o <<Slash>> \o runs[a].name} :
          IF fail = "retr" \/ src \notin remote
          THEN /\ Becomes(a, Raised(runs[a], "retr"))
               /\ UNCHANGED cache_files
          ELSE /\ \E whole \in (IF Writers(a, runs[a].name) = {} THEN {TRUE}
                                  ELSE {TRUE, FALSE}) :
                     cache_files' =
                         {c \in cache_files : c.name # runs[a].name}
                         \cup {[name |-> runs[a].name,
                                src |-> IF whole THEN src ELSE Empty,
                                complete |-> whole]}
               /\ Becomes(a, [runs[a] EXCEPT
                       !.at = "zip", !.open = ExitWith(@),
                       !.tracked_files =
                           track(@, FetchRole(runs[a]), LocalPath(runs[a].name))])
    /\ UNCHANGED cache_dir_exists

\* lines 143-144: ZipFile(zip_file_path) reads the archive's directory; it
\* closes the file itself when it raises
RunZipOpen(a) ==
    /\ runs[a].step \in FetchSteps /\ runs[a].at = "zip"
    /\ \E out \in {get_file_as_str_from_zip(cache_files,
                        TheVal(runs[a].tracked_files[FetchRole(runs[a])]),
                        FetchMember(runs[a]))} :
          Becomes(a, IF out \in {"FileNotFound", "BadZipFile"}
                     THEN Raised(runs[a], out)
                     ELSE [runs[a] EXCEPT !.at = "read", !.open = @ \o <<"zip_file">>])
    /\ UNCHANGED <<cache_dir_exists, cache_files>>

\* line 147: zip_file.read(file_in_zip_path_str), and the end of the with
\* block
RunZipRead(a) ==
    /\ runs[a].step \in FetchSteps /\ runs[a].at = "read"
    /\ \E out \in {get_file_as_str_from_zip(cache_files,
                        TheVal(runs[a].tracked_files[FetchRole(runs[a])]),
                        FetchMember(runs[a]))} :
          Becomes(a, IF out # "ok"
                     THEN Raised(runs[a], out)
                     ELSE [runs[a] EXCEPT !.step = StepAfter(@),
                                          !.at = IF StepAfter(runs[a].step) = "done"
                                                 THEN "end" ELSE "select",
                                          !.open = ExitWith(@)])
    /\ UNCHANGED <<cache_dir_exists, cache_files>>

\* the runs of one process, and of two processes started on one cache
\* directory
OneRun == {1}
TwoRuns == {1, 2}

InitRuns(ids) ==
    /\ remote \in {R \in SUBSET FilePool : Cardinality(R) <= MaxFiles}
    /\ cache_dir_exists = FALSE
    /\ cache_files = {}
    /\ current_election = None
    /\ pc = "new"
    /\ ftp_listing = <<>>
    /\ election_root = None
    /\ tracked_files = NoTracked
    /\ last = NoCall
    /\ runs = [a \in ids |-> NewRun]

\* one process running __init__
NextSteps ==
    \E a \in OneRun :
        \/ RunListOpen(a)
        \/ RunListLogin(a)
        \/ RunListWalk(a)
        \/ RunResolve(a)
        \/ RunSelect(a)
        \/ RunConnect(a)
        \/ RunLogin(a)
        \/ RunOpen(a)
        \/ RunRetr(a)
        \/ RunZipOpen(a)
        \/ RunZipRead(a)

InitSteps == InitRuns(OneRun)
SpecSteps == InitSteps /\ [][NextSteps]_vars

\* two processes running __init__ on one cache directory, their statements
\* interleaved in any way
NextOverlap ==
    \E a \in TwoRuns :
        \/ RunListOpen(a)
        \/ RunListLogin(a)
        \/ RunListWalk(a)
        \/ RunResolve(a)
        \/ RunSelect(a)
        \/ RunConnect(a)
        \/ RunLogin(a)
        \/ RunOpen(a)
        \/ RunRetr(a)
        \/ RunZipOpen(a)
        \/ RunZipRead(a)

InitOverlap == InitRuns(TwoRuns)
SpecOverlap == InitOverlap /\ [][NextOverlap]_vars

\* ----------------------------------------------------------- properties

\* the calls that run the selector, and those that reached download_file
SelectorOps ==
    {"get_latest", "get_preload", "populate_election", "populate_candidates",
     "get_latest_results"}
IsSelect(c) == c.op \in SelectorOps
IsDownload(c) ==
    \/ c.op = "download_file"
    \/ (c.op \in SelectorOps /\ c.out # "NoMatch")
\* download_file returned (a later extraction may still have failed)
Downloaded(c) ==
    IsDownload(c) /\ c.out \in {"ok", "BadZipFile", "KeyError", "FileNotFound"}
Resolved(c) == c.op = "get_election"

\* the distinct second-segment values of the listing the last call saw
Ids == ElectionSet(ftp_listing)

\* the entries that contain path and end with ext, and the greatest of a
\* set of strings
Matches(listing, path, ext) ==
    {f \in Range(listing) : Contains(f, path) /\ EndsWith(f, ext)}
Greatest(S) == CHOOSE m \in S : \A x \in S : StrLeq(x, m)

\* C1 as stated: on a listing with exactly one distinct second-segment
\* value v, get_election returns v whatever the override is.
C1_AnyOverride ==
    (Resolved(last) /\ Cardinality(Ids) = 1)
        => \A v \in Ids : last.ret = Some(v)

\* C1 amended: on a listing with exactly one distinct second-segment value
\* v, get_election returns v when there is no override, when the override
\* is the empty string and when the override is v; for every other
\* override it raises the override-not-found error.
C1_SingleElection ==
    (Resolved(last) /\ Cardinality(Ids) = 1)
        => \A v \in Ids :
              IF last.override \in {None, Some(Empty), Some(v)}
              THEN last.out = "ok" /\ last.ret = Some(v)
              ELSE last.out = "OverrideNotFound" /\ last.ret = None

C1_Witness ==
    /\ Resolved(last)
    /\ Ids = {E1}
    /\ last.override = Some(E1)
    /\ last.ret = Some(E1)

\* C2 as stated: every supplied override, the empty string included, that
\* is not among the distinct second-segment values makes get_election
\* raise the override-not-found error.
C2_AnyAbsentOverride ==
    (Resolved(last) /\ last.override # None /\ TheVal(last.override) \notin Ids)
        => (last.out = "OverrideNotFound" /\ last.ret = None)

\* C2 amended: on every (non-empty) listing a supplied non-empty override
\* that is not among the distinct second-segment values makes get_election
\* raise the override-not-found error, not another error and not a value;
\* the empty string counts as no override (one identifier: it is returned,
\* several: the ambiguous-election error).
C2_AbsentOverride ==
    Resolved(last) =>
        /\ (Truthy(last.override) /\ TheVal(last.override) \notin Ids)
              => (last.out = "OverrideNotFound" /\ last.ret = None)
        /\ (last.override = Some(Empty) /\ Cardinality(Ids) = 1)
              => (last.out = "ok" /\ \A v \in Ids : last.ret = Some(v))
        /\ (last.override = Some(Empty) /\ Cardinality(Ids) > 1)
              => (last.out = "Ambiguous" /\ last.ret = None)

C2_Witness ==
    /\ Resolved(last)
    /\ Cardinality(Ids) >= 2
    /\ last.override = Some(E3)
    /\ last.out = "OverrideNotFound"

\* C3: on a listing with two or more distinct second-segment values and
\* no override, get_election raises the ambiguous-election error and
\* returns nothing.
C3_Ambiguous ==
    (Resolved(last) /\ Cardinality(Ids) >= 2 /\ last.override = None)
        => (last.out = "Ambiguous" /\ last.ret = None)

C3_Witness ==
    /\ Resolved(last)
    /\ Cardinality(Ids) >= 2
    /\ last.override = None
    /\ last.out = "Ambiguous"

\* C4: whatever get_election returns is one of the distinct second-segment
\* values of the listing, and an override that is one of them is returned
\* unchanged, also when there are several.
C4_ReturnsMember ==
    Resolved(last) =>
        /\ last.ret # None => TheVal(last.ret) \in Ids
        /\ (last.override # None /\ TheVal(last.override) \in Ids)
              => (last.out = "ok" /\ last.ret = last.override)

C4_Witness ==
    /\ Resolved(last)
    /\ Cardinality(Ids) >= 2
    /\ last.override = Some(E2)
    /\ last.ret = Some(E2)

\* C5: when at least one entry contains the directory path and ends with
\* the suffix, the selector does not raise the no-match error, also for
\* the role "preload" with several matches, and the file name it selects
\* is the last segment of the greatest matching path; the path it returns
\* is that name in the cache directory.
C5_SelectsGreatest ==
    (IsSelect(last) /\ Matches(ftp_listing, last.path, last.ext) # {})
        => /\ last.out # "NoMatch"
           /\ last.name =
                LastSegment(Greatest(Matches(ftp_listing, last.path, last.ext)))
           /\ last.ret # None => last.ret = Some(LocalPath(last.name))
           /\ last.warned =
                (last.role = "preload"
                 /\ Cardinality(Matches(ftp_listing, last.path, last.ext)) > 1)

C5_Witness ==
    /\ last.op = "populate_election"
    /\ last.out = "ok"
    /\ Cardinality(Matches(ftp_listing, last.path, last.ext)) > 1
    /\ last.warned
    /\ last.ret = Some(LocalPath(P2Zip))

\* C6 as stated: of two successive download_file calls with the same
\* directory and file name, the second opens no connection and issues no
\* transfer request.
C6_SecondCallNeverConnects ==
    [][(/\ IsDownload(last)
        /\ IsDownload(last')
        /\ last'.path = last.path
        /\ last'.name = last.name)
          => (last'.conn = 0 /\ last'.retr = 0)]_vars

\* C6 amended: no operation removes a file from the cache directory, in
\* this session or a later one; a download_file call that returns or that
\* fails during the transfer leaves a file at cache_dir/file_name; and a
\* download_file call made when that file is present opens no connection,
\* issues no transfer request and yields cache_dir/file_name.  (After a
\* call that failed at login or change-directory the next call connects
\* again.)
C6_OneTransfer ==
    [][/\ CachedNames(cache_files) \subseteq CachedNames(cache_files')
       /\ (IsDownload(last') /\ last'.retr = 1)
            => (last'.name \notin CachedNames(cache_files)
                /\ last'.name \in CachedNames(cache_files'))
       /\ (IsDownload(last') /\ last'.name \in CachedNames(cache_files))
            => /\ last'.conn = 0
               /\ last'.retr = 0
               /\ Downloaded(last')
               /\ tracked_files'[last'.role] = Some(LocalPath(last'.name))
               /\ cache_files' = cache_files]_vars

C6_Witness ==
    /\ last.op = "download_file"
    /\ last.had
    /\ last.conn = 0
    /\ last.out = "ok"
    /\ pc = "ready"

\* C7 as stated: once a role is mapped to a local path, no later operation
\* of the session changes the path it maps to.
C7_NeverOverwritten ==
    [][\A r \in Roles :
          (pc' # "new" /\ tracked_files[r] # None)
              => tracked_files'[r] = tracked_files[r]]_vars

\* C7 amended: once a role is mapped to a local path, the only operation
\* of the session that changes the path it maps to is a download_file call
\* for that role that returns, and it overwrites the mapping with
\* cache_dir/file_name of that call; so invoking the selector again leaves
\* the mapping as it is when it derives the same candidate and overwrites
\* it when it derives a different one.
C7_OverwrittenByDownload ==
    [][\A r \in Roles :
          (pc' # "new" /\ tracked_files[r] # None
                       /\ tracked_files'[r] # tracked_files[r])
              => /\ Downloaded(last')
                 /\ last'.role = r
                 /\ tracked_files'[r] = Some(LocalPath(last'.name))]_vars

C7_Witness ==
    /\ last.op = "get_latest"
    /\ Downloaded(last)
    /\ last.prior # None
    /\ last.prior # Some(LocalPath(last.name))
    /\ tracked_files[last.role] = Some(LocalPath(last.name))

\* C8: a download_file call that returns leaves the mapping as it was
\* except that the call's role maps to cache_dir/file_name, whether the
\* file was transferred or already present; a call that does not return
\* leaves the mapping as it was; no operation of a session removes an
\* entry.
C8_RecordsRole ==
    [][/\ (IsDownload(last') /\ Downloaded(last'))
            => tracked_files' =
                 [tracked_files EXCEPT ![last'.role] = Some(LocalPath(last'.name))]
       /\ (IsDownload(last') /\ ~Downloaded(last'))
            => tracked_files' = tracked_files
       /\ \A r \in Roles :
            (pc' # "new" /\ tracked_files[r] # None) => tracked_files'[r] # None]_vars

C8_Witness ==
    /\ last.op = "download_file"
    /\ last.out = "ok"
    /\ last.had
    /\ last.prior # Some(LocalPath(last.name))
    /\ tracked_files[last.role] = Some(LocalPath(last.name))
    /\ \E r \in Roles \ {last.role} : tracked_files[r] # None

\* C9: when no entry of the listing both contains the directory path and
\* ends with the suffix, the selector raises the no-match error, opens no
\* connection, writes no file to the cache directory and leaves the
\* mapping as it was.
C9_NoMatch ==
    [][(IsSelect(last') /\ Matches(ftp_listing, last'.path, last'.ext) = {})
          => /\ last'.out = "NoMatch"
             /\ last'.ret = None
             /\ last'.conn = 0
             /\ last'.retr = 0
             /\ cache_files' = cache_files
             /\ tracked_files' = tracked_files]_vars

C9_Witness ==
    /\ IsSelect(last)
    /\ last.out = "NoMatch"
    /\ \E f \in Range(ftp_listing) : Contains(f, last.path)
    /\ cache_files # {}

\* C10: of two successive invocations of the selector with the same
\* listing, directory path, role and suffix, the second selects the file
\* name the first selected and, when the first returned a local path,
\* returns that path, whatever the first did to the cache directory and
\* the mapping.
C10_Idempotent ==
    [][(/\ IsSelect(last)
        /\ IsSelect(last')
        /\ ftp_listing' = ftp_listing
        /\ last'.path = last.path
        /\ last'.role = last.role
        /\ last'.ext = last.ext)
          => /\ last'.name = last.name
             /\ (last.out = "NoMatch") = (last'.out = "NoMatch")
             /\ last.ret # None => last'.ret = last.ret]_vars

C10_Witness ==
    /\ last.op = "populate_candidates"
    /\ pc = "candidates"
    /\ last.had
    /\ last.conn = 0
    /\ last.ret = Some(LocalPath(P2Zip))

\* C11: __init__ runs its steps in the order refresh_ftp_file_list,
\* get_election, populate_election (select and download the preload
\* bundle, extract the event document), populate_candidates (extract the
\* candidates document), get_latest_results (select and download the
\* results bundle, extract the results document); each step starts only
\* when the one before it returned, so with what the earlier steps
\* produced in place, and once a step has raised nothing more happens in
\* that session: no call, no connection, no file written, no mapping
\* update.
InitOrder ==
    [new |-> [op |-> "refresh_ftp_file_list", to |-> "listed"],
     listed |-> [op |-> "get_election", to |-> "resolved"],
     resolved |-> [op |-> "populate_election", to |-> "election"],
     election |-> [op |-> "populate_candidates", to |-> "candidates"],
     candidates |-> [op |-> "get_latest_results", to |-> "ready"]]

C11_Sequential ==
    [][/\ pc \in DOMAIN InitOrder
            => /\ last'.op = InitOrder[pc].op
               /\ pc' = IF last'.out = "ok" THEN InitOrder[pc].to ELSE "failed"
       /\ pc = "failed"
            => /\ pc' = "new"
               /\ last' = NoCall
               /\ cache_files' = cache_files
               /\ cache_dir_exists' = cache_dir_exists
       /\ pc' \in {"new", "listed", "resolved"}
            => (tracked_files' = NoTracked /\ cache_files' = cache_files)
       /\ pc' \in {"resolved", "election", "candidates"}
            => (ftp_listing' # <<>> /\ election_root' # None)
       /\ pc' \in {"election", "candidates"}
            => /\ tracked_files'["preload"] # None
               /\ tracked_files'["results"] = None
               /\ get_file_as_str_from_zip(cache_files',
                      TheVal(tracked_files'["preload"]),
                      EventDoc(TheVal(election_root'))) = "ok"
       /\ pc' = "candidates"
            => get_file_as_str_from_zip(cache_files',
                   TheVal(tracked_files'["preload"]),
                   CandidatesDoc(TheVal(election_root'))) = "ok"]_vars

C11_Witness ==
    /\ pc = "failed"
    /\ last.op = "populate_candidates"
    /\ last.out = "KeyError"
    /\ tracked_files["preload"] = Some(LocalPath(P1Zip))
    /\ tracked_files["results"] = None

\* the entries of the listing below the directory dir that end with ext
Under(listing, dir, ext) ==
    {f \in Range(listing) : StartsWith(f, dir \o <<Slash>>) /\ EndsWith(f, ext)}

IsSorted(s) == \A i \in 1..(Len(s) - 1) : StrLeq(s[i], s[i + 1])

\* C14: once refresh_ftp_file_list has returned, ftp_listing is non-empty
\* and sorted in every later state of the session; get_election, the
\* selector, download_file and the extraction leave it as it is; and on a
\* server without entries refresh_ftp_file_list raises the empty-listing
\* error and assigns no listing.
C14_ListingStable ==
    [][/\ (last'.op = "refresh_ftp_file_list" /\ last'.out = "ok")
            => (ftp_listing' # <<>> /\ IsSorted(ftp_listing'))
       /\ (last'.op = "refresh_ftp_file_list" /\ remote = {})
            => /\ last'.out \in {"EmptyListing", "login", "cwd"}
               /\ ftp_listing' = ftp_listing
               /\ pc = "new" => pc' = "failed"
       /\ (last'.op = "refresh_ftp_file_list" /\ last'.out = "EmptyListing")
            => remote = {}
       /\ (last'.op # "refresh_ftp_file_list" /\ pc' # "new")
            => ftp_listing' = ftp_listing
       /\ pc' \in {"listed", "resolved", "election", "candidates", "ready"}
            => ftp_listing' # <<>>
       /\ IsSorted(ftp_listing')]_vars

C14_Witness ==
    /\ pc = "ready"
    /\ last.op = "get_latest"
    /\ last.retr = 1
    /\ Len(ftp_listing) >= 8
    /\ IsSorted(ftp_listing)
    /\ Cardinality(Ids) >= 2

\* C17 as stated: between download_file calls every file in the cache
\* directory is a complete copy of the server's file of that name, and a
\* download_file call that raises at login, at change-directory or during
\* the transfer leaves no file at cache_dir/file_name, so that the next
\* call for that name transfers it.
C17_CacheHoldsCompleteCopies ==
    [][/\ \A c \in cache_files' :
             c.complete /\ c.src \in remote /\ LastSegment(c.src) = c.name
       /\ (IsDownload(last') /\ last'.out \in {"login", "cwd", "retr"})
            => last'.name \notin CachedNames(cache_files')
       /\ (IsDownload(last') /\ ~Downloaded(last) /\ IsDownload(last)
                              /\ last.name = last'.name)
            => last'.conn = 1]_vars

\* a transfer that failed left a file behind, and a later call skipped the
\* transfer and handed that file to the extraction
C17_Witness ==
    /\ IsSelect(last)
    /\ last.had
    /\ last.conn = 0
    /\ last.out = "BadZipFile"
    /\ \E c \in cache_files : c.name = last.name /\ ~c.complete

\* C18 as stated: when the selector's download issues a transfer request,
\* the path requested, path + "/" + the selected file name, is an entry of
\* the listing, the greatest of the entries that matched.
C18_RequestsChosenEntry ==
    (IsSelect(last) /\ last.retr = 1)
        => /\ last.path \o <<Slash>> \o last.name \in Range(ftp_listing)
           /\ last.path \o <<Slash>> \o last.name
                 = Greatest(Matches(ftp_listing, last.path, last.ext))

\* the entry selected lies in a subdirectory of path, and the transfer
\* requested a file of path that the listing does not have
C18_Witness ==
    /\ IsSelect(last)
    /\ last.retr = 1
    /\ last.out = "retr"
    /\ Greatest(Matches(ftp_listing, last.path, last.ext))
          = last.path \o <<Slash>> \o Sub \o <<Slash>> \o R3Zip
    /\ last.path \o <<Slash>> \o last.name \notin Range(ftp_listing)

\* the entries of the tree whose files are R: its files and its directories
Entries(R) ==
    UNION { { SubSeq(f, 1, k) :
                k \in {j \in 2..Len(f) : j = Len(f) \/ f[j + 1] = Slash} } : f \in R }

\* the entries all of whose ancestors have a name without "."
Reachable(R) ==
    { e \in Entries(R) :
        \A a \in Entries(R) :
            StartsWith(e, a \o <<Slash>>) => Dot \notin Range(LastSegment(a)) }

\* a reachable file whose name has no "."
DotlessFiles(R) == { f \in R \cap Reachable(R) : Dot \notin Range(LastSegment(f)) }

NoDuplicates(s) == Cardinality(Range(s)) = Len(s)

\* C15 as stated: on every tree refresh_ftp_file_list, the server not
\* failing, ends with a listing (with the empty-listing error on the empty
\* tree), and the listing holds exactly once the path of every entry
\* reachable through entries whose names have no ".", and nothing below an
\* entry whose name has one.
C15_ListsEveryTree ==
    (last.op = "refresh_ftp_file_list" /\ last.fault = "none")
        => IF remote = {}
           THEN last.out = "EmptyListing"
           ELSE /\ last.out = "ok"
                /\ Range(ftp_listing) = Reachable(remote)
                /\ NoDuplicates(ftp_listing)

\* what holds of refresh_ftp_file_list, the server not failing: on a tree
\* with a reachable file whose name has no "." it raises at ftp.cwd and
\* assigns no listing; on every other tree but the empty one it assigns a
\* listing that holds exactly once each reachable entry.
ListsReachable ==
    (last.op = "refresh_ftp_file_list" /\ last.fault = "none")
        => IF remote = {}
           THEN last.out = "EmptyListing"
           ELSE IF DotlessFiles(remote) # {}
           THEN last.out = "cwd" /\ ftp_listing = <<>>
           ELSE /\ last.out = "ok"
                /\ Range(ftp_listing) = Reachable(remote)
                /\ NoDuplicates(ftp_listing)

\* a tree with a file whose name has no ".": the lister raised and the
\* session has no listing
C15_Witness ==
    /\ last.op = "refresh_ftp_file_list"
    /\ last.fault = "none"
    /\ last.out = "cwd"
    /\ pc = "failed"
    /\ ftp_listing = <<>>
    /\ DotlessFiles(remote) # {}
    /\ \E f \in remote : V1 \in Range(Split(f))

\* the connections the runs hold
Connections ==
    Cardinality({p \in {<<a, i>> : a \in DOMAIN runs, i \in 1..3} :
                    /\ p[2] \in DOMAIN runs[p[1]].open
                    /\ runs[p[1]].open[p[2]] = "ftp"})

\* the places where no listing, download or extraction is under way
Between == {"start", "call", "select", "zip", "end"}

\* C13: nothing keeps a run from taking a file another run is writing for
\* a finished one: download_file finding the file at cache_dir/file_name
\* skips the transfer and records the path whether or not the file is
\* whole and whether or not another run holds it open for writing, and
\* the extraction from a file that is not whole raises.
C13_SkipIgnoresWriter ==
    [][\A a \in DOMAIN runs :
          /\ (/\ runs[a].at = "select"
              /\ runs'[a] # runs[a]
              /\ runs'[a].step # "failed"
              /\ runs'[a].name \in CachedNames(cache_files))
                => /\ runs'[a].skipped
                   /\ runs'[a].at = "zip"
                   /\ runs'[a].open = <<>>
                   /\ runs'[a].tracked_files[FetchRole(runs[a])]
                         = Some(LocalPath(runs'[a].name))
                   /\ cache_files' = cache_files
          /\ (/\ runs[a].at = "zip"
              /\ runs'[a] # runs[a]
              /\ \E c \in cache_files : c.name = runs[a].name /\ ~c.complete)
                => (runs'[a].step = "failed" /\ runs'[a].out = "BadZipFile")]_vars

\* the interleaving: the run a found the file the run b is still writing,
\* skipped the transfer, recorded the file and failed to extract from it
C13_Witness ==
    \E a, b \in DOMAIN runs :
        /\ a # b
        /\ runs[a].skipped
        /\ runs[a].step = "failed"
        /\ runs[a].out = "BadZipFile"
        /\ runs[a].tracked_files["preload"] = Some(LocalPath(runs[a].name))
        /\ runs[b].at = "retr"
        /\ runs[b].name = runs[a].name
        /\ runs[b].open = <<"ftp", "local_file">>
        /\ \E c \in cache_files : c.name = runs[a].name /\ ~c.complete

\* C16: a run holds at most one connection at any time, and where no
\* listing, download or extraction is under way, the last one having
\* returned or raised at whatever statement, it holds no connection, no
\* file handle and no archive handle.
C16_Released ==
    /\ Connections <= 1
    /\ \A a \in DOMAIN runs :
          /\ runs[a].at \in Between => runs[a].open = <<>>
          /\ Len(runs[a].open) <= 2
          /\ runs[a].at \in {"login", "walk", "open"} => runs[a].open = <<"ftp">>
          /\ runs[a].at = "retr" => runs[a].open = <<"ftp", "local_file">>
          /\ runs[a].at = "read" => runs[a].open = <<"zip_file">>

C16_Witness ==
    \E a \in DOMAIN runs :
        /\ runs[a].step = "failed"
        /\ runs[a].out = "retr"
        /\ runs[a].open = <<>>
        /\ \E c \in cache_files : c.name = runs[a].name /\ ~c.complete

====
